---- MODULE Spec2Model ----
(***************************************************************************)
(* The timer dispatcher of packages/platform-server/src/modules/timer/     *)
(* service.ts: the next-fire calculator (getTimerNextTime), the 10-minute  *)
(* scanner (refreshRunning), the dispatch executor (dispatchSnapshot with  *)
(* needDispatch, checkTimer, getTimerPayload) and updateTimer, run by      *)
(* several processes against one timer store, one entity directory and one *)
(* expiring-key store.                                                     *)
(*                                                                         *)
(* Time is in milliseconds, as Date.now() gives it.  Local time is taken   *)
(* to be UTC with no daylight-saving shift, so that "today at H:00" is the *)
(* start of the current 24-hour day plus H hours.                          *)
(***************************************************************************)
EXTENDS Integers, Sequences, FiniteSets, TLC

VARIABLES
    now,        \* Date.now(), ms
    timers,     \* the Timer table: id -> row (the domain is the existing rows)
    pages,      \* the Page table: id -> [projectId, disable]
    profiles,   \* the Profile table
    envs,       \* the Environment table
    redis,      \* the dedup keys: projectId -> instant the key expires (0: no key)
    scan,       \* per process: the running refreshRunning call
    timeouts,   \* the pending setTimeout callbacks of all processes
    tasks,      \* the dispatchSnapshot calls in flight, of all processes
    fired,      \* history: per timer, the firing windows takeSnapshotByPageIds was called for
    updates,    \* number of updateTimer / CRUD steps taken so far
    probe       \* the last call of a function under test, with its arguments and result

vars == <<now, timers, pages, profiles, envs, redis, scan, timeouts, tasks, fired,
          updates, probe>>

----------------------------------------------------------------------------
(* Constants of service.ts *)

TEN_MINUTES == 1000 * 60 * 10
ONE_HOUR == 1000 * 60 * 60
\* redis.set(scheduleKey, 1, 'EX', 60 * 11): the expiry, in ms
KEY_EXPIRY == 60 * 11 * 1000
ONE_DAY == ONE_HOUR * 24

\* ScheduleType and ScheduleMonitorType
ScheduleOff == "Off"
Daily == "Daily"
Hourly == "Hourly"
EveryXHour == "EveryXHour"
MonitorAll == "All"
MonitorCustom == "Specified"

----------------------------------------------------------------------------
(* Values *)

\* A nullable column or an optional property: <<>> when unset, <<v>> when set.
Unset == <<>>
Some(v) == <<v>>
\* x ?? d
Coalesce(x, d) == IF x = Unset THEN d ELSE x[1]

\* Array.prototype.filter
RECURSIVE filter(_, _)
filter(s, keep) ==
    IF s = <<>> THEN <<>>
    ELSE IF Head(s) \in keep THEN <<Head(s)>> \o filter(Tail(s), keep)
    ELSE filter(Tail(s), keep)

Range(s) == {s[i] : i \in DOMAIN s}

\* lodash difference(array, values): the elements of array not in values, in order.
\* values is a query result, whose order is not used: a set.
difference(array, values) == filter(array, Range(array) \ values)

\* lodash without(array, ...values): array with every occurrence of the values removed
without(array, values) == filter(array, Range(array) \ Range(values))

----------------------------------------------------------------------------
(* getTimerNextTime, service.ts:42-69 *)

\* new Date().setHours(h, 0, 0, 0): today at h:00:00.000.  The function reads the
\* clock twice in one synchronous run; both reads give the instant t.
setHours(t, h) == (t - (t % ONE_DAY)) + h * ONE_HOUR

\* a faulty variant: the guard "nextTime - now <= 1000" written with "<"
getTimerNextTime_strict(timer, t) ==
    IF timer.schedule = Unset THEN t
    ELSE CASE timer.schedule[1] = Daily ->
                LET nextTime == setHours(t, Coalesce(timer.timeOfDay, 0))
                IN  IF nextTime - t < 1000 THEN nextTime + ONE_HOUR * 24 ELSE nextTime
           [] timer.schedule[1] = Hourly -> t + ONE_HOUR
           [] timer.schedule[1] = EveryXHour -> t + ONE_HOUR * Coalesce(timer.hour, 1)
           [] timer.schedule[1] = ScheduleOff -> t

\* a faulty variant: EveryXHour ignoring the multiplier
getTimerNextTime_nohour(timer, t) ==
    IF timer.schedule = Unset THEN t
    ELSE CASE timer.schedule[1] = Daily ->
                LET nextTime == setHours(t, Coalesce(timer.timeOfDay, 0))
                IN  IF nextTime - t <= 1000 THEN nextTime + ONE_HOUR * 24 ELSE nextTime
           [] timer.schedule[1] = Hourly -> t + ONE_HOUR
           [] timer.schedule[1] = EveryXHour -> t + ONE_HOUR
           [] timer.schedule[1] = ScheduleOff -> t

\* timer: a record with schedule, timeOfDay and hour, each optional; t: Date.now()
getTimerNextTime(timer, t) ==
    IF timer.schedule = Unset THEN t
    ELSE CASE timer.schedule[1] = Daily ->
                LET nextTime == setHours(t, Coalesce(timer.timeOfDay, 0))
                IN  IF nextTime - t <= 1000 THEN nextTime + ONE_HOUR * 24 ELSE nextTime
           [] timer.schedule[1] = Hourly -> t + ONE_HOUR
           [] timer.schedule[1] = EveryXHour -> t + ONE_HOUR * Coalesce(timer.hour, 1)
           [] timer.schedule[1] = ScheduleOff -> t

----------------------------------------------------------------------------
(* checkTimer, service.ts:255-298, as a function of the timer it is given and
   of the three id lists it reads (every Page, Profile and Environment id).
   The result is the timer it returns and whether it saved it. *)

\* a faulty variant: the promotion decided on the stored lists, not on the survivors
checkTimer_stored(timer, pageIds, profileIds, envIds) ==
    IF timer.monitorType = MonitorAll THEN [timer |-> timer, saved |-> FALSE]
    ELSE
        LET restPageIds == without(timer.pageIds, difference(timer.pageIds, pageIds))
            restProfileIds == without(timer.profileIds, difference(timer.profileIds, profileIds))
            restEnvIds == without(timer.envIds, difference(timer.envIds, envIds))
        IN  IF Len(timer.pageIds) = 0 \/ Len(timer.profileIds) = 0 \/ Len(timer.envIds) = 0
            THEN [timer |-> [timer EXCEPT !.monitorType = MonitorAll, !.pageIds = <<>>,
                                          !.profileIds = <<>>, !.envIds = <<>>],
                  saved |-> TRUE]
            ELSE [timer |-> [timer EXCEPT !.pageIds = restPageIds,
                                          !.profileIds = restProfileIds,
                                          !.envIds = restEnvIds],
                  saved |-> TRUE]

\* a faulty variant: the promotion only when all three lists lost every member
checkTimer_all(timer, pageIds, profileIds, envIds) ==
    IF timer.monitorType = MonitorAll THEN [timer |-> timer, saved |-> FALSE]
    ELSE
        LET restPageIds == without(timer.pageIds, difference(timer.pageIds, pageIds))
            restProfileIds == without(timer.profileIds, difference(timer.profileIds, profileIds))
            restEnvIds == without(timer.envIds, difference(timer.envIds, envIds))
        IN  IF Len(restPageIds) = 0 /\ Len(restProfileIds) = 0 /\ Len(restEnvIds) = 0
            THEN [timer |-> [timer EXCEPT !.monitorType = MonitorAll, !.pageIds = <<>>,
                                          !.profileIds = <<>>, !.envIds = <<>>],
                  saved |-> TRUE]
            ELSE [timer |-> [timer EXCEPT !.pageIds = restPageIds,
                                          !.profileIds = restProfileIds,
                                          !.envIds = restEnvIds],
                  saved |-> TRUE]

\* a faulty variant: the deleted ids kept and the survivors dropped
checkTimer_swapped(timer, pageIds, profileIds, envIds) ==
    IF timer.monitorType = MonitorAll THEN [timer |-> timer, saved |-> FALSE]
    ELSE
        LET restPageIds == difference(timer.pageIds, pageIds)
            restProfileIds == without(timer.profileIds, difference(timer.profileIds, profileIds))
            restEnvIds == without(timer.envIds, difference(timer.envIds, envIds))
        IN  IF Len(restPageIds) = 0 \/ Len(restProfileIds) = 0 \/ Len(restEnvIds) = 0
            THEN [timer |-> [timer EXCEPT !.monitorType = MonitorAll, !.pageIds = <<>>,
                                          !.profileIds = <<>>, !.envIds = <<>>],
                  saved |-> TRUE]
            ELSE [timer |-> [timer EXCEPT !.pageIds = restPageIds,
                                          !.profileIds = restProfileIds,
                                          !.envIds = restEnvIds],
                  saved |-> TRUE]

checkTimer(timer, pageIds, profileIds, envIds) ==
    IF timer.monitorType = MonitorAll THEN [timer |-> timer, saved |-> FALSE]
    ELSE
        LET restPageIds == without(timer.pageIds, difference(timer.pageIds, pageIds))
            restProfileIds == without(timer.profileIds, difference(timer.profileIds, profileIds))
            restEnvIds == without(timer.envIds, difference(timer.envIds, envIds))
        IN  IF Len(restPageIds) = 0 \/ Len(restProfileIds) = 0 \/ Len(restEnvIds) = 0
            THEN [timer |-> [timer EXCEPT !.monitorType = MonitorAll, !.pageIds = <<>>,
                                          !.profileIds = <<>>, !.envIds = <<>>],
                  saved |-> TRUE]
            ELSE [timer |-> [timer EXCEPT !.pageIds = restPageIds,
                                          !.profileIds = restProfileIds,
                                          !.envIds = restEnvIds],
                  saved |-> TRUE]

----------------------------------------------------------------------------
(* getTimerPayload, service.ts:203-244, as a function of the timer and of the
   three tables it reads.  A payload is a record whose id lists are optional. *)

\* Page.findBy({ disable: false, projectId }) and its map to ids
findEnabled(table, projectId) ==
    {id \in DOMAIN table : ~table[id].disable /\ table[id].projectId = projectId}

SchedulerTrigger == "Scheduler"

\* a faulty variant: the disable flag not looked at
getTimerPayload_nodisable(timer, pageTable, profileTable, envTable) ==
    IF timer.monitorType = MonitorAll
    THEN [projectId |-> timer.projectId, pageIds |-> Unset, profileIds |-> Unset,
          envIds |-> Unset, trigger |-> SchedulerTrigger]
    ELSE [projectId |-> timer.projectId,
          pageIds |-> Some(filter(timer.pageIds, DOMAIN pageTable)),
          profileIds |-> Some(filter(timer.profileIds, findEnabled(profileTable, timer.projectId))),
          envIds |-> Some(filter(timer.envIds, findEnabled(envTable, timer.projectId))),
          trigger |-> SchedulerTrigger]

getTimerPayload(timer, pageTable, profileTable, envTable) ==
    LET needFilter == timer.monitorType # MonitorAll
    IN  IF ~needFilter
        THEN [projectId |-> timer.projectId, pageIds |-> Unset, profileIds |-> Unset,
              envIds |-> Unset, trigger |-> SchedulerTrigger]
        ELSE [projectId |-> timer.projectId,
              pageIds |-> Some(filter(timer.pageIds, findEnabled(pageTable, timer.projectId))),
              profileIds |-> Some(filter(timer.profileIds, findEnabled(profileTable, timer.projectId))),
              envIds |-> Some(filter(timer.envIds, findEnabled(envTable, timer.projectId))),
              trigger |-> SchedulerTrigger]

----------------------------------------------------------------------------
(* The state every specification starts from, and its parts *)

\* a timer's id; its project has the same number (one timer per project)
TimerIds == {1, 2, 3}

NoProbe == [op |-> "none"]
\* no refreshRunning call running; at: the instant of the last one (none yet: -1)
IdleScan == [pc |-> "idle", timers |-> <<>>, i |-> 0, at |-> 0 - 1]

\* the processes running the scanner
Procs == DOMAIN scan

Quiet ==
    /\ redis = [t \in TimerIds |-> 0]
    /\ timeouts = {}
    /\ tasks = {}
    /\ fired = [t \in TimerIds |-> <<>>]
    /\ updates = 0
    /\ probe = NoProbe

\* the sequences over S with no element twice
SeqsNoRep(S) ==
    UNION {{f \in [1..n -> S] : \A i, j \in 1..n : i # j => f[i] # f[j]} :
           n \in 0..Cardinality(S)}

\* the tables over the ids Ids: each id deleted, enabled or disabled (project 1)
Tables(Ids) ==
    UNION {{[id \in S |-> [projectId |-> 1, iid |-> id, disable |-> d[id]]] :
                d \in [S -> BOOLEAN]} :
           S \in SUBSET Ids}

----------------------------------------------------------------------------
(* SpecNextTime: getTimerNextTime on every configuration at instants around
   the hours of a day *)

\* the largest EveryXHour multiplier tried
MaxHour == 3
\* the day the instants are taken from
SampleDay == 3

HourSamples == {0, 9, 23}
DeltaSamples == {0 - 2000, 0 - 1001, 0 - 1000, 0 - 999, 0 - 500, 0 - 1, 0, 1, 999, 1000, 1001}
NowSamples ==
    {SampleDay * ONE_DAY + h * ONE_HOUR + d : h \in HourSamples, d \in DeltaSamples}

Optional(S) == {Unset} \cup {Some(v) : v \in S}

InitNextTime ==
    /\ now \in NowSamples
    /\ scan = <<>>
    /\ timers = <<>>
    /\ pages = <<>> /\ profiles = <<>> /\ envs = <<>>
    /\ Quiet

CallGetTimerNextTime ==
    /\ probe = NoProbe
    /\ \E schedule \in Optional({ScheduleOff, Daily, Hourly, EveryXHour}),
          timeOfDay \in Optional(0..23),
          hour \in Optional(0..MaxHour) :
            LET timer == [schedule |-> schedule, timeOfDay |-> timeOfDay, hour |-> hour]
            IN  probe' = [op |-> "getTimerNextTime", timer |-> timer, now |-> now,
                          result |-> getTimerNextTime(timer, now)]
    /\ UNCHANGED <<now, timers, pages, profiles, envs, redis, scan, timeouts, tasks,
                   fired, updates>>

NextNextTime == CallGetTimerNextTime

SpecNextTime == InitNextTime /\ [][NextNextTime]_vars

\* today at h:00:00.000, for the instant t: the instant of t's day h hours into it
TodayAt(t, h) == (t \div ONE_DAY) * ONE_DAY + h * ONE_HOUR

ProbeIs(op) == probe.op = op

\* C4: a Daily timer with timeOfDay = H gets today's H:00 when that is more than
\* 1000 ms after now, and that instant plus exactly 24 hours otherwise (1000 ms
\* before it, and at or after it).
C4_DailyNextTime ==
    (ProbeIs("getTimerNextTime") /\ probe.timer.schedule = Some(Daily)
        /\ probe.timer.timeOfDay # Unset) =>
        LET H == probe.timer.timeOfDay[1]
            today == TodayAt(probe.now, H)
        IN  IF today - probe.now > 1000
            THEN probe.result = today
            ELSE probe.result = today + 24 * 3600000

\* C4's cases: exactly 1000 ms before H:00 (tomorrow) and 1001 ms before (today)
C4_Witness ==
    /\ ProbeIs("getTimerNextTime") /\ probe.timer.schedule = Some(Daily)
    /\ probe.timer.timeOfDay = Some(9)
    /\ TodayAt(probe.now, 9) - probe.now = 1000
    /\ probe.result = TodayAt(probe.now, 9) + ONE_DAY

\* C5: Hourly gives now + 1 hour whatever timeOfDay and hour are; EveryXHour
\* with hour = n >= 1 gives now + n hours, and with hour unset now + 1 hour.
C5_HourlyNextTime ==
    ProbeIs("getTimerNextTime") =>
        /\ probe.timer.schedule = Some(Hourly) => probe.result = probe.now + 3600000
        /\ (probe.timer.schedule = Some(EveryXHour) /\ probe.timer.hour = Unset) =>
                probe.result = probe.now + 3600000
        /\ (probe.timer.schedule = Some(EveryXHour) /\ probe.timer.hour # Unset
                /\ probe.timer.hour[1] >= 1) =>
                probe.result = probe.now + probe.timer.hour[1] * 3600000

\* C5's case: EveryXHour with a multiplier above 1, and a timeOfDay set
C5_Witness ==
    /\ ProbeIs("getTimerNextTime") /\ probe.timer.schedule = Some(EveryXHour)
    /\ probe.timer.hour = Some(MaxHour) /\ probe.timer.timeOfDay = Some(9)
    /\ probe.result = probe.now + MaxHour * ONE_HOUR

----------------------------------------------------------------------------
(* SpecRecon: checkTimer and getTimerPayload on one timer of project 1, for
   every stored membership and every state of the three tables.  The tables do
   not change: the set of live entities is fixed. *)

\* the ids of the Page and Profile tables, and the largest id of the Environment table
PageIdSet == 1..3
ProfileIdSet == 1..2
MaxEnvId == 1
EnvIdSet == 1..MaxEnvId

\* a Timer row
Row(id, schedule, timeOfDay, hour, monitorType, pageIds, profileIds, envIds, next) ==
    [id |-> id, projectId |-> id, schedule |-> schedule, timeOfDay |-> timeOfDay,
     hour |-> hour, monitorType |-> monitorType, pageIds |-> pageIds,
     profileIds |-> profileIds, envIds |-> envIds, nextTriggerTime |-> next]

InitRecon ==
    /\ now = 0
    /\ scan = <<>>
    /\ \E monitorType \in {MonitorAll, MonitorCustom},
          pageIds \in SeqsNoRep(PageIdSet),
          profileIds \in SeqsNoRep(ProfileIdSet),
          envIds \in SeqsNoRep(EnvIdSet) :
            timers = (1 :> Row(1, Some(Hourly), Unset, Unset, monitorType,
                               pageIds, profileIds, envIds, 0))
    /\ pages \in Tables(PageIdSet)
    /\ profiles \in Tables(ProfileIdSet)
    /\ envs \in Tables(EnvIdSet)
    /\ Quiet

\* checkTimer(timer) on the stored timer, and its save()
ReconCheckTimer ==
    /\ LET r == checkTimer(timers[1], DOMAIN pages, DOMAIN profiles, DOMAIN envs)
       IN  /\ timers' = IF r.saved THEN [timers EXCEPT ![1] = r.timer] ELSE timers
           /\ probe' = [op |-> "checkTimer", timer |-> timers[1], result |-> r.timer,
                         again |-> ProbeIs("checkTimer")]
    /\ UNCHANGED <<now, pages, profiles, envs, redis, scan, timeouts, tasks, fired, updates>>

\* getTimerPayload(timer) on the stored timer
ReconPayload ==
    /\ probe' = [op |-> "getTimerPayload", timer |-> timers[1],
                  payload |-> getTimerPayload(timers[1], pages, profiles, envs)]
    /\ UNCHANGED <<now, timers, pages, profiles, envs, redis, scan, timeouts, tasks,
                   fired, updates>>

NextRecon == ReconCheckTimer \/ ReconPayload

SpecRecon == InitRecon /\ [][NextRecon]_vars

\* the stored ids that are in keep, in their stored order (the stored lists hold no id twice)
IsRestriction(result, stored, keep) ==
    /\ Range(result) = Range(stored) \cap keep
    /\ Len(result) = Cardinality(Range(stored) \cap keep)
    /\ \A i, j \in DOMAIN result : i < j =>
            \E a, b \in DOMAIN stored : a < b /\ stored[a] = result[i] /\ stored[b] = result[j]

NoneLeft(stored, table) == Range(stored) \cap DOMAIN table = {}

\* C7: reconciling a Custom timer of which at least one of the three lists has no
\* live member left persists monitorType = All and three empty lists, whatever
\* the other two lists hold.
C7_Promotion ==
    (ProbeIs("checkTimer") /\ probe.timer.monitorType = MonitorCustom
        /\ (\/ NoneLeft(probe.timer.pageIds, pages)
            \/ NoneLeft(probe.timer.profileIds, profiles)
            \/ NoneLeft(probe.timer.envIds, envs))) =>
        /\ timers[1].monitorType = MonitorAll
        /\ timers[1].pageIds = <<>> /\ timers[1].profileIds = <<>> /\ timers[1].envIds = <<>>
        /\ probe.result = timers[1]

\* C7's case: only the profiles are all deleted; pages and environments survive
C7_Witness ==
    /\ ProbeIs("checkTimer") /\ probe.timer.monitorType = MonitorCustom
    /\ probe.timer.profileIds # <<>> /\ NoneLeft(probe.timer.profileIds, profiles)
    /\ ~NoneLeft(probe.timer.pageIds, pages) /\ ~NoneLeft(probe.timer.envIds, envs)
    /\ timers[1].monitorType = MonitorAll /\ timers[1].pageIds = <<>>

\* C8: reconciling a Custom timer whose three lists each keep a live member
\* persists, for each list, the stored ids that still exist in their stored
\* order; monitorType stays Custom and a list with no deleted member is unchanged.
C8_Narrowing ==
    (ProbeIs("checkTimer") /\ probe.timer.monitorType = MonitorCustom
        /\ ~NoneLeft(probe.timer.pageIds, pages)
        /\ ~NoneLeft(probe.timer.profileIds, profiles)
        /\ ~NoneLeft(probe.timer.envIds, envs)) =>
        /\ timers[1].monitorType = MonitorCustom
        /\ IsRestriction(timers[1].pageIds, probe.timer.pageIds, DOMAIN pages)
        /\ IsRestriction(timers[1].profileIds, probe.timer.profileIds, DOMAIN profiles)
        /\ IsRestriction(timers[1].envIds, probe.timer.envIds, DOMAIN envs)
        /\ Range(probe.timer.pageIds) \subseteq DOMAIN pages =>
                timers[1].pageIds = probe.timer.pageIds
        /\ Range(probe.timer.profileIds) \subseteq DOMAIN profiles =>
                timers[1].profileIds = probe.timer.profileIds
        /\ Range(probe.timer.envIds) \subseteq DOMAIN envs =>
                timers[1].envIds = probe.timer.envIds
        /\ probe.result = timers[1]

\* C8's case: pageIds [1,2,3] with live pages 1 and 3 becomes [1,3]
C8_Witness ==
    /\ ProbeIs("checkTimer") /\ probe.timer.monitorType = MonitorCustom
    /\ probe.timer.pageIds = <<1, 2, 3>> /\ DOMAIN pages = {1, 3}
    /\ timers[1].pageIds = <<1, 3>> /\ timers[1].monitorType = MonitorCustom

\* C9: checkTimer applied to the result of checkTimer, the live entities being
\* the same, changes nothing: monitorType and the three lists stay as the first
\* application left them.
C9_Idempotent ==
    (ProbeIs("checkTimer") /\ probe.again) =>
        /\ probe.result.monitorType = probe.timer.monitorType
        /\ probe.result.pageIds = probe.timer.pageIds
        /\ probe.result.profileIds = probe.timer.profileIds
        /\ probe.result.envIds = probe.timer.envIds
        /\ timers[1] = probe.timer

\* C9's case: a second application on a timer the first one narrowed (a page is
\* deleted, two are kept) and left Custom
C9_Witness ==
    /\ ProbeIs("checkTimer") /\ probe.again
    /\ probe.timer.monitorType = MonitorCustom
    /\ Len(probe.timer.pageIds) = 2 /\ Cardinality(DOMAIN pages) = 2

\* C10: the payload of an All timer carries projectId and trigger = Scheduler and
\* no id list; the payload of a Custom timer carries, for each list, the stored
\* ids whose entity is an enabled one of the project, so that a disabled entity
\* that is not deleted is left out of the payload and stays in the stored list.
C10_Payload ==
    ProbeIs("getTimerPayload") =>
        LET t == probe.timer
            enabled(table) ==
                {id \in DOMAIN table : table[id].projectId = t.projectId /\ ~table[id].disable}
        IN  /\ probe.payload.projectId = t.projectId
            /\ probe.payload.trigger = "Scheduler"
            /\ t.monitorType = MonitorAll =>
                    /\ probe.payload.pageIds = Unset
                    /\ probe.payload.profileIds = Unset
                    /\ probe.payload.envIds = Unset
            /\ t.monitorType = MonitorCustom =>
                    /\ probe.payload.pageIds # Unset
                    /\ probe.payload.profileIds # Unset
                    /\ probe.payload.envIds # Unset
                    /\ IsRestriction(probe.payload.pageIds[1], t.pageIds, enabled(pages))
                    /\ IsRestriction(probe.payload.profileIds[1], t.profileIds, enabled(profiles))
                    /\ IsRestriction(probe.payload.envIds[1], t.envIds, enabled(envs))
            /\ timers[1] = t

\* C10's case: a Custom timer that checkTimer has reconciled, one of whose stored
\* pages is disabled and another enabled
C10_Witness ==
    /\ ProbeIs("getTimerPayload") /\ probe.timer.monitorType = MonitorCustom
    /\ Range(probe.timer.pageIds) \subseteq DOMAIN pages
    /\ \E a, b \in Range(probe.timer.pageIds) :
            /\ pages[a].disable /\ ~pages[b].disable
            /\ probe.payload.pageIds = Some(<<b>>)
            /\ a \in Range(timers[1].pageIds)

----------------------------------------------------------------------------
(* Spec: the processes of Procs run refreshRunning on the 10-minute cron and
   the dispatches it starts, against one Timer table and one key store.
   SpecConfig: the same while timers are reconfigured (updateTimer) and
   deleted.  Each action is one await of the code with the synchronous code
   that follows it. *)

\* the clock advances by half a scan period, MaxTicks times
TickMs == TEN_MINUTES \div 2
MaxTicks == 2
\* the reconfigurations and deletions of timers in one behaviour
MaxUpdates == 1

\* the ids of a set in ascending order (the order the store returns rows in)
RECURSIVE SortedSeq(_)
SortedSeq(S) ==
    IF S = {} THEN <<>>
    ELSE LET m == CHOOSE x \in S : \A y \in S : x <= y
         IN  <<m>> \o SortedSeq(S \ {m})

\* a faulty variant: the query without its schedule condition
findDueTimers_any(table, t) ==
    LET ids == SortedSeq({id \in DOMAIN table : table[id].nextTriggerTime < t + TEN_MINUTES})
    IN  [i \in DOMAIN ids |-> table[ids[i]]]

\* refreshRunning's query: where schedule != Off and next_trigger_time < now + TEN_MINUTES
\* (a null schedule satisfies no SQL comparison)
findDueTimers(table, t) ==
    LET ids == SortedSeq({id \in DOMAIN table :
                    /\ table[id].schedule # Unset
                    /\ table[id].schedule # Some(ScheduleOff)
                    /\ table[id].nextTriggerTime < t + TEN_MINUTES})
    IN  [i \in DOMAIN ids |-> table[ids[i]]]

\* a faulty variant: the re-check without the schedule
needDispatch_nooff(table, id, t) ==
    /\ id \in DOMAIN table
    /\ table[id].nextTriggerTime <= t

\* needDispatch(id) at instant t
needDispatch(table, id, t) ==
    /\ id \in DOMAIN table
    /\ table[id].schedule # Some(ScheduleOff)
    /\ table[id].nextTriggerTime <= t

\* redis.get(scheduleKey) at instant t: the key is there until it expires
scheduled(projectId, t) == redis[projectId] > t

\* the for loop of refreshRunning going on to its next timer, or returning
Continue(sc) ==
    IF sc.i < Len(sc.timers)
    THEN [sc EXCEPT !.pc = "get", !.i = sc.i + 1]
    ELSE [sc EXCEPT !.pc = "idle", !.timers = <<>>, !.i = 0]

\* a dispatchSnapshot call at its first line
NewTask(p, rawTimer, check) ==
    [proc |-> p, rawTimer |-> rawTimer, check |-> check, pc |-> "check",
     timer |-> rawTimer, nextTime |-> 0, payload |-> Unset, outcome |-> "",
     born |-> now]

\* dispatchSnapshot from "const timer = await this.checkTimer(rawTimer)": an All
\* timer comes back as it is, and its next time is computed and its update sent;
\* for another timer checkTimer starts its queries.
EnterCheckTimer(d) ==
    IF d.rawTimer.monitorType = MonitorAll
    THEN [d EXCEPT !.pc = "update", !.timer = d.rawTimer,
                   !.nextTime = getTimerNextTime(d.rawTimer, now)]
    ELSE [d EXCEPT !.pc = "read"]

\* a faulty variant: the key released in a then(), after a dispatch that
\* returned, and not after one that was rejected
Finish_then(d, outcome) ==
    IF d.check /\ outcome \in {"dispatched", "aborted"}
    THEN (tasks \ {d}) \cup {[d EXCEPT !.pc = "del", !.outcome = outcome]}
    ELSE tasks \ {d}

\* dispatchSnapshot returning or throwing: the deferred one goes on to its
\* finally (redis.del), the immediate one is over
Finish(d, outcome) ==
    IF d.check THEN (tasks \ {d}) \cup {[d EXCEPT !.pc = "del", !.outcome = outcome]}
    ELSE tasks \ {d}

\* timer 1: Custom and due now; timer 2: All and due in half a scan period;
\* timer 3: switched off, with a next time long past
DueNow == Row(1, Some(Hourly), Unset, Unset, MonitorCustom, <<11>>, <<11>>, <<11>>, 0)
DueSoon == Row(2, Some(Hourly), Unset, Unset, MonitorAll, <<>>, <<>>, <<>>, TickMs)
SwitchedOff == Row(3, Some(ScheduleOff), Unset, Unset, MonitorAll, <<>>, <<>>, <<>>, 0)

\* two processes and one timer, due now or due soon; one process and the three timers
Deployments ==
    {[procs |-> {"p1", "p2"}, timers |-> (1 :> DueNow)],
     [procs |-> {"p1", "p2"}, timers |-> (2 :> DueSoon)],
     [procs |-> {"p1"}, timers |-> (1 :> DueNow @@ 2 :> DueSoon @@ 3 :> SwitchedOff)]}

Entities ==
    /\ pages = (11 :> [projectId |-> 1, iid |-> 1, disable |-> FALSE])
    /\ profiles = (11 :> [projectId |-> 1, iid |-> 1, disable |-> FALSE])
    /\ envs = (11 :> [projectId |-> 1, iid |-> 1, disable |-> FALSE])

Init ==
    /\ now = 0
    /\ \E dep \in Deployments :
            /\ timers = dep.timers
            /\ scan = [p \in dep.procs |-> IdleScan]
    /\ Entities
    /\ Quiet

Tick ==
    /\ now < MaxTicks * TickMs
    /\ now' = now + TickMs
    /\ UNCHANGED <<timers, pages, profiles, envs, redis, scan, timeouts, tasks, fired,
                   updates, probe>>

\* @Cron(EVERY_10_MINUTES): refreshRunning up to its query, lines 140-148
ScanStart(p) ==
    /\ now % TEN_MINUTES = 0
    /\ scan[p].pc = "idle"
    /\ scan[p].at < now
    /\ LET due == findDueTimers(timers, now)
       IN  scan' = [scan EXCEPT ![p] =
                        Continue([pc |-> "idle", timers |-> due, i |-> 0, at |-> now])]
    /\ UNCHANGED <<now, timers, pages, profiles, envs, redis, timeouts, tasks, fired,
                   updates, probe>>

\* a faulty variant: every candidate whose key is not set dispatched at once
ScanGet_eager(p) ==
    /\ scan[p].pc = "get"
    /\ LET timer == scan[p].timers[scan[p].i]
       IN  IF scheduled(timer.projectId, now)
           THEN /\ scan' = [scan EXCEPT ![p] = Continue(scan[p])]
                /\ UNCHANGED <<timeouts, tasks>>
           ELSE /\ tasks' = tasks \cup {EnterCheckTimer(NewTask(p, timer, FALSE))}
                /\ scan' = [scan EXCEPT ![p] = Continue(scan[p])]
                /\ UNCHANGED timeouts
    /\ UNCHANGED <<now, timers, pages, profiles, envs, redis, fired, updates, probe>>

\* a faulty variant: the immediate dispatch awaited ("await this.dispatchSnapshot(timer)")
\* before the loop goes on
ScanGet_await(p) ==
    /\ \/ /\ scan[p].pc = "get"
          /\ LET timer == scan[p].timers[scan[p].i]
                 restTime == timer.nextTriggerTime - now
             IN  IF scheduled(timer.projectId, now)
                 THEN /\ scan' = [scan EXCEPT ![p] = Continue(scan[p])]
                      /\ UNCHANGED <<timeouts, tasks>>
                 ELSE IF restTime <= 0
                 THEN /\ tasks' = tasks \cup {EnterCheckTimer(NewTask(p, timer, FALSE))}
                      /\ scan' = [scan EXCEPT ![p].pc = "await"]
                      /\ UNCHANGED timeouts
                 ELSE /\ timeouts' = timeouts \cup
                              {[proc |-> p, rawTimer |-> timer, at |-> now + restTime]}
                      /\ scan' = [scan EXCEPT ![p].pc = "set"]
                      /\ UNCHANGED tasks
       \/ /\ scan[p].pc = "await"
          /\ ~\E d \in tasks : d.proc = p /\ ~d.check
          /\ scan' = [scan EXCEPT ![p] = Continue(scan[p])]
          /\ UNCHANGED <<timeouts, tasks>>
    /\ UNCHANGED <<now, timers, pages, profiles, envs, redis, fired, updates, probe>>

\* the loop body from "await this.redis.get(scheduleKey)" to the await of
\* redis.set or to the next timer, lines 151-174
ScanGet(p) ==
    /\ scan[p].pc = "get"
    /\ LET timer == scan[p].timers[scan[p].i]
           restTime == timer.nextTriggerTime - now
       IN  IF scheduled(timer.projectId, now)
           THEN /\ scan' = [scan EXCEPT ![p] = Continue(scan[p])]
                /\ UNCHANGED <<timeouts, tasks>>
           ELSE IF restTime <= 0
           THEN /\ tasks' = tasks \cup {EnterCheckTimer(NewTask(p, timer, FALSE))}
                /\ scan' = [scan EXCEPT ![p] = Continue(scan[p])]
                /\ UNCHANGED timeouts
           ELSE /\ timeouts' = timeouts \cup
                        {[proc |-> p, rawTimer |-> timer, at |-> now + restTime]}
                /\ scan' = [scan EXCEPT ![p].pc = "set"]
                /\ UNCHANGED tasks
    /\ UNCHANGED <<now, timers, pages, profiles, envs, redis, fired, updates, probe>>

\* a faulty variant: the key set with no expiry to speak of
ScanSet_noexpiry(p) ==
    /\ scan[p].pc = "set"
    /\ LET timer == scan[p].timers[scan[p].i]
       IN  redis' = [redis EXCEPT ![timer.projectId] = now + ONE_DAY]
    /\ scan' = [scan EXCEPT ![p] = Continue(scan[p])]
    /\ UNCHANGED <<now, timers, pages, profiles, envs, timeouts, tasks, fired, updates,
                   probe>>

\* "await this.redis.set(scheduleKey, 1, 'EX', 60 * 11)", line 175
ScanSet(p) ==
    /\ scan[p].pc = "set"
    /\ LET timer == scan[p].timers[scan[p].i]
       IN  redis' = [redis EXCEPT ![timer.projectId] = now + KEY_EXPIRY]
    /\ scan' = [scan EXCEPT ![p] = Continue(scan[p])]
    /\ UNCHANGED <<now, timers, pages, profiles, envs, timeouts, tasks, fired, updates,
                   probe>>

\* the setTimeout callback, lines 165-166: no earlier than restTime after it was set
TimeoutFire(to) ==
    /\ to \in timeouts
    /\ now >= to.at
    /\ timeouts' = timeouts \ {to}
    /\ tasks' = tasks \cup {NewTask(to.proc, to.rawTimer, TRUE)}
    /\ UNCHANGED <<now, timers, pages, profiles, envs, redis, scan, fired, updates, probe>>

\* dispatchSnapshot(rawTimer, true), lines 181-188
DispatchCheck(d) ==
    /\ d \in tasks /\ d.pc = "check"
    /\ IF needDispatch(timers, d.rawTimer.id, now)
       THEN tasks' = (tasks \ {d}) \cup {EnterCheckTimer(d)}
       ELSE tasks' = Finish(d, "aborted")
    /\ UNCHANGED <<now, timers, pages, profiles, envs, redis, scan, timeouts, fired,
                   updates, probe>>

\* checkTimer's three queries and what it computes from them, lines 261-295 (the
\* three tables do not change in these specifications, so the three reads are
\* one step)
DispatchRead(d) ==
    /\ d \in tasks /\ d.pc = "read"
    /\ LET r == checkTimer(d.rawTimer, DOMAIN pages, DOMAIN profiles, DOMAIN envs)
       IN  tasks' = (tasks \ {d}) \cup {[d EXCEPT !.pc = "save", !.timer = r.timer]}
    /\ UNCHANGED <<now, timers, pages, profiles, envs, redis, scan, timeouts, fired,
                   updates, probe>>

\* checkTimer's Timer.create(payload).save(): the whole row is written, and
\* inserted when it is not there; then lines 192-194 up to the await of the update
DispatchSave(d) ==
    /\ d \in tasks /\ d.pc = "save"
    /\ timers' = [id \in DOMAIN timers \cup {d.timer.id} |->
                    IF id = d.timer.id THEN d.timer ELSE timers[id]]
    /\ tasks' = (tasks \ {d}) \cup
                    {[d EXCEPT !.pc = "update",
                               !.nextTime = getTimerNextTime(d.timer, now)]}
    /\ UNCHANGED <<now, pages, profiles, envs, redis, scan, timeouts, fired, updates,
                   probe>>

\* Timer.update(timer.id, { nextTriggerTime: nextTime }), lines 194-196, and the
\* call of getTimerPayload, which for an All timer returns at once
DispatchUpdate(d) ==
    /\ d \in tasks /\ d.pc = "update"
    /\ timers' = IF d.timer.id \in DOMAIN timers
                 THEN [timers EXCEPT ![d.timer.id].nextTriggerTime = d.nextTime]
                 ELSE timers
    /\ tasks' = (tasks \ {d}) \cup
            {IF d.timer.monitorType = MonitorAll
             THEN [d EXCEPT !.pc = "trigger",
                            !.payload = Some(getTimerPayload(d.timer, pages, profiles, envs))]
             ELSE [d EXCEPT !.pc = "payload"]}
    /\ UNCHANGED <<now, pages, profiles, envs, redis, scan, timeouts, fired, updates,
                   probe>>

\* getTimerPayload's three queries, lines 213-243
DispatchPayload(d) ==
    /\ d \in tasks /\ d.pc = "payload"
    /\ tasks' = (tasks \ {d}) \cup
            {[d EXCEPT !.pc = "trigger",
                       !.payload = Some(getTimerPayload(d.timer, pages, profiles, envs))]}
    /\ UNCHANGED <<now, timers, pages, profiles, envs, redis, scan, timeouts, fired,
                   updates, probe>>

\* snapshotService.takeSnapshotByPageIds(payload, true), line 200
DispatchTrigger(d) ==
    /\ d \in tasks /\ d.pc = "trigger"
    /\ fired' = [fired EXCEPT ![d.rawTimer.id] = Append(@, d.rawTimer.nextTriggerTime)]
    /\ tasks' = Finish(d, "dispatched")
    /\ UNCHANGED <<now, timers, pages, profiles, envs, redis, scan, timeouts, updates,
                   probe>>

\* the finally of the deferred dispatch: redis.del(scheduleKey), lines 170-172
DispatchDel(d) ==
    /\ d \in tasks /\ d.pc = "del"
    /\ redis' = [redis EXCEPT ![d.rawTimer.projectId] = 0]
    /\ tasks' = tasks \ {d}
    /\ UNCHANGED <<now, timers, pages, profiles, envs, scan, timeouts, fired, updates,
                   probe>>

\* an UpdateTimerInput: every property optional
Patch(schedule, hour, monitorType, pageIds, profileIds, envIds) ==
    [schedule |-> schedule, timeOfDay |-> Unset, hour |-> hour,
     monitorType |-> monitorType, pageIds |-> pageIds, profileIds |-> profileIds,
     envIds |-> envIds]

\* the patches tried: the schedule switched off, set to Hourly, set to every 2
\* hours; the scope set to All with no schedule given; a Custom membership given
\* by iids
Patches ==
    {Patch(Some(ScheduleOff), Unset, Unset, Unset, Unset, Unset),
     Patch(Some(Hourly), Unset, Unset, Unset, Unset, Unset),
     Patch(Some(EveryXHour), Some(2), Unset, Unset, Unset, Unset),
     Patch(Unset, Unset, Some(MonitorAll), Unset, Unset, Unset),
     Patch(Unset, Unset, Some(MonitorCustom), Some(<<1>>), Some(<<1>>), Some(<<1>>))}

\* Page.findBy({ projectId, iid: In(iids) }) and its map to ids
resolveIids(table, projectId, iids) ==
    SortedSeq({id \in DOMAIN table :
                    table[id].projectId = projectId /\ table[id].iid \in Range(iids)})

\* the list Timer.merge(timer, patch, idUpdates) leaves: the resolved ids when the
\* patch gives a non-empty list, the patch's own empty list, or the stored list
mergedIds(stored, given, table, projectId) ==
    IF given = Unset THEN stored
    ELSE IF Len(given[1]) > 0 THEN resolveIids(table, projectId, given[1])
    ELSE given[1]

\* the row updateTimer saves: the stored row (for a new timer, the columns'
\* defaults) with the patch, the resolved ids and the next time merged in
mergedTimer(projectId, patch, t) ==
    LET old == IF projectId \in DOMAIN timers THEN timers[projectId]
               ELSE Row(projectId, Some(ScheduleOff), Unset, Unset, MonitorAll,
                        <<>>, <<>>, <<>>, 0)
    IN  [id |-> old.id, projectId |-> projectId,
         schedule |-> IF patch.schedule = Unset THEN old.schedule ELSE patch.schedule,
         timeOfDay |-> IF patch.timeOfDay = Unset THEN old.timeOfDay ELSE patch.timeOfDay,
         hour |-> IF patch.hour = Unset THEN old.hour ELSE patch.hour,
         monitorType |-> Coalesce(patch.monitorType, old.monitorType),
         pageIds |-> mergedIds(old.pageIds, patch.pageIds, pages, projectId),
         profileIds |-> mergedIds(old.profileIds, patch.profileIds, profiles, projectId),
         envIds |-> mergedIds(old.envIds, patch.envIds, envs, projectId),
         nextTriggerTime |-> getTimerNextTime(patch, t)]

\* updateTimer(projectId, patch), lines 103-137: the row read, merged and saved
updateTimer(projectId, patch) ==
    /\ updates < MaxUpdates
    /\ updates' = updates + 1
    /\ timers' = [id \in DOMAIN timers \cup {projectId} |->
                    IF id = projectId THEN mergedTimer(projectId, patch, now)
                    ELSE timers[id]]
    /\ UNCHANGED <<now, pages, profiles, envs, redis, scan, timeouts, tasks, fired, probe>>

\* a timer row removed by the layer that owns the rows (the row needDispatch
\* does not find, line 248)
DeleteTimer(id) ==
    /\ updates < MaxUpdates
    /\ id \in DOMAIN timers
    /\ updates' = updates + 1
    /\ timers' = [i \in DOMAIN timers \ {id} |-> timers[i]]
    /\ UNCHANGED <<now, pages, profiles, envs, redis, scan, timeouts, tasks, fired, probe>>

Next ==
    \/ Tick
    \/ \E p \in Procs : ScanStart(p)
    \/ \E p \in Procs : ScanGet(p)
    \/ \E p \in Procs : ScanSet(p)
    \/ \E to \in timeouts : TimeoutFire(to)
    \/ \E d \in tasks : DispatchCheck(d)
    \/ \E d \in tasks : DispatchRead(d)
    \/ \E d \in tasks : DispatchSave(d)
    \/ \E d \in tasks : DispatchUpdate(d)
    \/ \E d \in tasks : DispatchPayload(d)
    \/ \E d \in tasks : DispatchTrigger(d)
    \/ \E d \in tasks : DispatchDel(d)

Spec == Init /\ [][Next]_vars

\* one process and one timer, due now or due soon
InitConfig ==
    /\ now = 0
    /\ timers \in {(1 :> DueNow), (2 :> DueSoon)}
    /\ scan = [p \in {"p1"} |-> IdleScan]
    /\ Entities
    /\ Quiet

NextConfig ==
    \/ Next
    \/ \E id \in DOMAIN timers, patch \in Patches : updateTimer(id, patch)
    \/ \E id \in DOMAIN timers : DeleteTimer(id)

SpecConfig == InitConfig /\ [][NextConfig]_vars

----------------------------------------------------------------------------
(* The claims on Spec and SpecConfig *)

\* C1: takeSnapshotByPageIds is invoked exactly once per timer and firing window
\* (per due value of nextTriggerTime), however many processes scan: here, never
\* twice for the same timer and window.
C1_OncePerWindow ==
    \A t \in TimerIds : \A i, j \in DOMAIN fired[t] :
        i # j => fired[t][i] # fired[t][j]

\* the deferred dispatches of timer t for window w: the callbacks pending and
\* the checked dispatches running
Deferred(t, w) ==
    {to \in timeouts : to.rawTimer.id = t /\ to.rawTimer.nextTriggerTime = w}
    \cup {d \in tasks : d.check /\ d.rawTimer.id = t /\ d.rawTimer.nextTriggerTime = w}

\* C2: of two scans that both find a timer with restTime > 0, only one
\* schedules a deferred dispatch, under every interleaving of their get and
\* set of the dedup key: no timer and window ever has two deferred dispatches.
C2_OneDeferred ==
    \A to \in timeouts :
        Cardinality(Deferred(to.rawTimer.id, to.rawTimer.nextTriggerTime)) <= 1

\* what a scan, a callback or a dispatch holds of timer t
Handled(t) ==
    \/ \E p \in Procs : \E i \in DOMAIN scan[p].timers : scan[p].timers[i].id = t
    \/ \E to \in timeouts : to.rawTimer.id = t
    \/ \E d \in tasks : d.rawTimer.id = t

\* C3: a timer whose stored schedule is Off is not selected by any scan, whatever
\* its nextTriggerTime: no scan holds it as a candidate, no dispatch of it is
\* started or scheduled, no dedup key is set for it and no snapshot is triggered.
C3_OffNeverScanned ==
    \A t \in DOMAIN timers :
        timers[t].schedule = Some(ScheduleOff) =>
            /\ ~Handled(t)
            /\ redis[timers[t].projectId] = 0
            /\ fired[t] = <<>>

\* C3's case: a scan running on the two timers that are on, while the timer that
\* is off has a next time in the scan's window
C3_Witness ==
    \E p \in Procs :
        /\ scan[p].pc = "get" /\ Len(scan[p].timers) = 2
        /\ 3 \in DOMAIN timers /\ timers[3].schedule = Some(ScheduleOff)
        /\ timers[3].nextTriggerTime < scan[p].at + TEN_MINUTES

\* the stored timer id is on and has a next time at or before the instant
StillDue(id) ==
    /\ id \in DOMAIN timers
    /\ timers[id].schedule # Some(ScheduleOff)
    /\ timers[id].nextTriggerTime <= now

\* C6: a deferred dispatch that, on re-reading its timer, finds it gone, switched
\* off or with a next time after now does nothing: the step leaves the Timer
\* table and the triggered snapshots as they are and ends the dispatch, and all
\* that is left of it, the release of the dedup key, leaves them as they are.
C6_AbortIsNoOp ==
    [][\A d \in tasks :
        /\ (d.pc = "check" /\ d \notin tasks' /\ ~StillDue(d.rawTimer.id)) =>
                /\ timers' = timers
                /\ fired' = fired
                /\ [d EXCEPT !.pc = "del", !.outcome = "aborted"] \in tasks'
        /\ (d.pc = "del" /\ d \notin tasks') =>
                /\ timers' = timers
                /\ fired' = fired
                /\ tasks' = tasks \ {d}]_vars

\* C6's case: a deferred dispatch ended by the re-check, its timer switched off
C6_Witness ==
    \E d \in tasks :
        /\ d.check /\ d.pc = "del" /\ d.outcome = "aborted"
        /\ d.rawTimer.id \in DOMAIN timers
        /\ timers[d.rawTimer.id].schedule = Some(ScheduleOff)
        /\ fired[d.rawTimer.id] = <<>>

\* d and e are the same dispatchSnapshot call at two of its positions
SameDispatch(d, e) ==
    /\ e.proc = d.proc /\ e.rawTimer = d.rawTimer
    /\ e.check = d.check /\ e.born = d.born

\* C18: a callback is registered for the nextTriggerTime its scan read, and no
\* dispatch exists before that instant: the deferred one starts when its callback
\* runs, the immediate one when the scan finds the timer's nextTriggerTime at or
\* before now; so the snapshot trigger of a deferred dispatch is never invoked
\* before the nextTriggerTime the timer had at scan time.
C18_NotBeforeDue ==
    /\ [](/\ \A to \in timeouts : to.at >= to.rawTimer.nextTriggerTime
          /\ \A d \in tasks :
                d.rawTimer.nextTriggerTime <= d.born /\ d.born <= now)
    /\ [][/\ \A e \in tasks' \ tasks :
                (~\E d \in tasks : SameDispatch(d, e)) =>
                    e.rawTimer.nextTriggerTime <= now
          /\ \A t \in TimerIds :
                fired'[t] # fired[t] =>
                    \E d \in tasks \ tasks' :
                        /\ d.pc = "trigger" /\ d.rawTimer.id = t
                        /\ fired'[t] = Append(fired[t], d.rawTimer.nextTriggerTime)
                        /\ now >= d.rawTimer.nextTriggerTime]_vars

\* C18's case: a deferred dispatch whose callback ran exactly restTime after its
\* scan and which has triggered its snapshot
C18_Witness ==
    \E d \in tasks :
        /\ d.check /\ d.pc = "del" /\ d.outcome = "dispatched"
        /\ d.rawTimer.nextTriggerTime > 0
        /\ d.born = d.rawTimer.nextTriggerTime
        /\ fired[d.rawTimer.id] # <<>>

\* the list after is the list before, or the list before with entries dropped
Narrowed(before, after) == Range(after) \subseteq Range(before)

\* C19: a dispatch does not overwrite a reconfiguration: in every step that is
\* not updateTimer's (the write of the reconciled row is one), each stored timer
\* keeps its schedule, timeOfDay and hour, and keeps its monitorType and its
\* three lists but for what reconciliation does to the stored values: lists
\* narrowed, or the promotion to All with the lists emptied.  So after a
\* reconfiguration made between a scan and the dispatch it started, the stored
\* values are the reconfigured ones, not the ones the scan read.
C19_NoOverwrite ==
    [][updates' = updates =>
        \A t \in DOMAIN timers \cap DOMAIN timers' :
            /\ timers'[t].schedule = timers[t].schedule
            /\ timers'[t].timeOfDay = timers[t].timeOfDay
            /\ timers'[t].hour = timers[t].hour
            /\ \/ /\ timers'[t].monitorType = timers[t].monitorType
                  /\ Narrowed(timers[t].pageIds, timers'[t].pageIds)
                  /\ Narrowed(timers[t].profileIds, timers'[t].profileIds)
                  /\ Narrowed(timers[t].envIds, timers'[t].envIds)
               \/ /\ timers[t].monitorType = MonitorCustom
                  /\ timers'[t].monitorType = MonitorAll
                  /\ timers'[t].pageIds = <<>> /\ timers'[t].profileIds = <<>>
                  /\ timers'[t].envIds = <<>>]_vars

\* the recurrence configuration of a stored row
Recurrence(row) ==
    [schedule |-> row.schedule, timeOfDay |-> row.timeOfDay, hour |-> row.hour]

\* the row is on with a recurrence that moves the next time forward
Recurring(row) ==
    \/ row.schedule \in {Some(Daily), Some(Hourly)}
    \/ row.schedule = Some(EveryXHour) /\ Coalesce(row.hour, 1) >= 1

\* C20: after every updateTimer, a patch that omits schedule, timeOfDay or hour
\* included, the stored nextTriggerTime is the next-fire instant of the row's
\* resulting schedule, timeOfDay and hour at the time of the update; and after
\* the nextTriggerTime update of a dispatch of a Daily, Hourly or EveryXHour
\* (hour >= 1) timer the stored nextTriggerTime is later than now.
C20_NextTimeConsistent ==
    [][/\ (updates' = updates + 1 /\ DOMAIN timers \subseteq DOMAIN timers') =>
            \A t \in DOMAIN timers' :
                (t \notin DOMAIN timers \/ timers'[t] # timers[t]) =>
                    timers'[t].nextTriggerTime =
                        getTimerNextTime(Recurrence(timers'[t]), now)
       /\ \A d \in tasks :
            (d.pc = "update" /\ d \notin tasks' /\ Recurring(d.timer)
                /\ \E e \in tasks' \ tasks : SameDispatch(d, e) /\ e.pc # "del"
                /\ d.timer.id \in DOMAIN timers') =>
                    timers'[d.timer.id].nextTriggerTime > now]_vars

----------------------------------------------------------------------------
(* SpecFail: Spec with the awaited operations rejecting: a key-store operation
   of the scanner, a Timer or entity query of a dispatch, the snapshot trigger
   and the release of the key.  One process scans timers 1 and 2. *)

\* refreshRunning rejecting in its loop: the rest of its candidates is dropped
\* and the cron's wrapper takes the rejection
AbortScan(sc) == [sc EXCEPT !.pc = "idle", !.timers = <<>>, !.i = 0]

\* the positions of dispatchSnapshot at which the awaited operation is one of
\* the Timer, Page, Profile or Environment tables
StorePcs == {"check", "read", "save", "update", "payload"}

\* the process of SpecFail and SpecSlow
FailProcs == {"p1"}

InitFail ==
    /\ now = 0
    /\ timers = (1 :> DueNow @@ 2 :> DueSoon)
    /\ scan = [p \in FailProcs |-> IdleScan]
    /\ Entities
    /\ Quiet

\* "await this.redis.get(scheduleKey)" rejecting, line 152: nothing in the loop
\* catches it
ScanGetFail(p) ==
    /\ scan[p].pc = "get"
    /\ scan' = [scan EXCEPT ![p] = AbortScan(scan[p])]
    /\ UNCHANGED <<now, timers, pages, profiles, envs, redis, timeouts, tasks, fired,
                   updates, probe>>

\* "await this.redis.set(...)" rejecting, line 175: the callback of line 165 is
\* already registered
ScanSetFail(p) ==
    /\ scan[p].pc = "set"
    /\ scan' = [scan EXCEPT ![p] = AbortScan(scan[p])]
    /\ UNCHANGED <<now, timers, pages, profiles, envs, redis, timeouts, tasks, fired,
                   updates, probe>>

\* a query, save or update of dispatchSnapshot rejecting (lines 182, 190, 194,
\* 198): the operation has no effect, dispatchSnapshot rejects and the catch of
\* its caller logs it
DispatchStoreFail(d) ==
    /\ d \in tasks /\ d.pc \in StorePcs
    /\ tasks' = Finish(d, "failed")
    /\ UNCHANGED <<now, timers, pages, profiles, envs, redis, scan, timeouts, fired,
                   updates, probe>>

\* a faulty variant: the failure handler putting the old next time back
DispatchTriggerFail_rollback(d) ==
    /\ d \in tasks /\ d.pc = "trigger"
    /\ tasks' = Finish(d, "trigger failed")
    /\ timers' = [timers EXCEPT ![d.rawTimer.id].nextTriggerTime =
                                    d.rawTimer.nextTriggerTime]
    /\ UNCHANGED <<now, pages, profiles, envs, redis, scan, timeouts, fired,
                   updates, probe>>

\* takeSnapshotByPageIds rejecting, line 200: the catch of the caller logs it
DispatchTriggerFail(d) ==
    /\ d \in tasks /\ d.pc = "trigger"
    /\ tasks' = Finish(d, "trigger failed")
    /\ UNCHANGED <<now, timers, pages, profiles, envs, redis, scan, timeouts, fired,
                   updates, probe>>

\* redis.del(scheduleKey) rejecting, line 171: ".catch(() => undefined)"
DispatchDelFail(d) ==
    /\ d \in tasks /\ d.pc = "del"
    /\ tasks' = tasks \ {d}
    /\ UNCHANGED <<now, timers, pages, profiles, envs, redis, scan, timeouts, fired,
                   updates, probe>>

NextFail ==
    \/ Next
    \/ \E p \in Procs : ScanGetFail(p)
    \/ \E p \in Procs : ScanSetFail(p)
    \/ \E d \in tasks : DispatchStoreFail(d)
    \/ \E d \in tasks : DispatchTriggerFail(d)
    \/ \E d \in tasks : DispatchDelFail(d)

SpecFail == InitFail /\ [][NextFail]_vars

----------------------------------------------------------------------------
(* The claims on SpecFail *)

\* C11: a dispatch comes to the snapshot trigger (and to the payload queries
\* before it) only through the step that persists its advanced nextTriggerTime,
\* a value later than the one the scan read; and the trigger step, whether the
\* trigger succeeds or throws, leaves the Timer table as it is, starts no other
\* dispatch and registers no callback: no rollback, no retry.
C11_AdvanceBeforeTrigger ==
    [][/\ \A e \in tasks' \ tasks :
            e.pc \in {"payload", "trigger"} =>
                \E d \in tasks \ tasks' :
                    /\ SameDispatch(d, e)
                    /\ \/ /\ d.pc = "update"
                          /\ timers'[e.rawTimer.id].nextTriggerTime = e.nextTime
                          /\ e.nextTime > e.rawTimer.nextTriggerTime
                       \/ /\ d.pc = "payload" /\ e.pc = "trigger"
                          /\ timers' = timers
       /\ \A d \in tasks :
            (d.pc = "trigger" /\ d \notin tasks') =>
                /\ timers' = timers
                /\ timeouts' = timeouts
                /\ \A e \in tasks' \ tasks : SameDispatch(d, e) /\ e.pc = "del"]_vars

\* C11's case: a deferred dispatch whose trigger threw, the stored next time
\* being the advanced one it wrote and no snapshot taken
C11_Witness ==
    \E d \in tasks :
        /\ d.pc = "del" /\ d.outcome = "trigger failed"
        /\ timers[d.rawTimer.id].nextTriggerTime = d.nextTime
        /\ d.nextTime > d.rawTimer.nextTriggerTime
        /\ fired[d.rawTimer.id] = <<>>

\* C12: in every step that is not a reconfiguration (updateTimer), under every
\* interleaving of the scans and dispatches of the processes, the stored
\* nextTriggerTime of every timer stays or grows; the write of checkTimer's
\* reconciled row is such a step.
C12_NeverDecreases ==
    [][updates' = updates =>
            \A t \in DOMAIN timers \cap DOMAIN timers' :
                timers'[t].nextTriggerTime >= timers[t].nextTriggerTime]_vars

\* the step ends the dispatch d by a rejection: nothing of d goes on but, for a
\* deferred dispatch, the release of its key
EndsFailed(d) ==
    /\ d \notin tasks'
    /\ \A e \in tasks' \ tasks :
            SameDispatch(d, e) => (e.pc = "del" /\ e.outcome = "failed")

\* C13: a step in which a Timer or entity operation of a dispatch fails, in the
\* reconciliation, the nextTriggerTime update or the payload construction, ends
\* the dispatch with no snapshot triggered and leaves the timer due: its stored
\* schedule is not Off and its stored nextTriggerTime is at or before now, so
\* that the next scan selects it.
C13_FailureLeavesDue ==
    [][\A d \in tasks :
        (d.pc \in {"read", "save", "update", "payload"} /\ EndsFailed(d)) =>
            /\ fired' = fired
            /\ d.rawTimer.id \in DOMAIN timers'
            /\ timers'[d.rawTimer.id].schedule # Some(ScheduleOff)
            /\ timers'[d.rawTimer.id].nextTriggerTime <= now']_vars

\* C14: a get or set of the dedup key that fails while the scanner handles one
\* candidate is isolated to that candidate: every step a scan takes at a
\* candidate that is not its last keeps the scan's candidates and leaves it at
\* that candidate (to set its key) or at the next one, which it then handles.
C14_LockFailureIsolated ==
    [][\A p \in Procs :
        (/\ scan[p].pc \in {"get", "set"}
         /\ scan[p].i < Len(scan[p].timers)
         /\ scan'[p] # scan[p]) =>
            /\ scan'[p].timers = scan[p].timers
            /\ scan'[p].pc \in {"get", "set"}
            /\ scan'[p].i \in {scan[p].i, scan[p].i + 1}]_vars

\* C17: the key of a project is set only by a scan that, finding restTime > 0,
\* has registered the deferred dispatch and started no immediate one, and it is
\* set to expire 11 minutes later; a deferred dispatch ends, dispatched, aborted
\* by the re-check or failed, only by going on to the release of that key, and
\* the release removes the key or, failing, changes nothing and reaches no one;
\* so no key outlives the 11 minutes after its last set.
C17_KeyLifecycle ==
    /\ [](\A t \in TimerIds : redis[t] <= now + KEY_EXPIRY)
    /\ [][/\ \A p \in Procs :
                (scan[p].pc = "get" /\ scan'[p].pc = "set") =>
                    LET timer == scan[p].timers[scan[p].i]
                    IN  /\ timer.nextTriggerTime - now > 0
                        /\ [proc |-> p, rawTimer |-> timer, at |-> timer.nextTriggerTime]
                                \in timeouts'
                        /\ tasks' = tasks /\ redis' = redis
          /\ \A t \in TimerIds :
                (redis'[t] # redis[t] /\ redis'[t] # 0) =>
                    /\ redis'[t] = now + 11 * 60 * 1000
                    /\ \E p \in Procs :
                            /\ scan[p].pc = "set" /\ scan'[p] # scan[p]
                            /\ scan[p].timers[scan[p].i].projectId = t
          /\ \A e \in tasks' \ tasks : ~e.check => redis' = redis
          /\ \A d \in tasks :
                (d.check /\ d.pc # "del" /\ d \notin tasks') =>
                    \E e \in tasks' \ tasks :
                        /\ SameDispatch(d, e)
                        /\ e.pc = "del" =>
                                e.outcome \in {"dispatched", "aborted", "failed",
                                               "trigger failed"}
          /\ \A d \in tasks :
                (d.pc = "del" /\ d \notin tasks') =>
                    /\ d.check
                    /\ \/ redis' = [redis EXCEPT ![d.rawTimer.projectId] = 0]
                       \/ redis' = redis
                    /\ tasks' = tasks \ {d}
                    /\ scan' = scan /\ timers' = timers /\ timeouts' = timeouts]_vars

\* C17's case: a deferred dispatch that failed on a store operation is about to
\* release the key, which is still set
C17_Witness ==
    \E d \in tasks :
        /\ d.check /\ d.pc = "del" /\ d.outcome = "failed"
        /\ scheduled(d.rawTimer.projectId, now)

----------------------------------------------------------------------------
(* SpecSlow: the scanner with dispatches that may fail and that nothing obliges
   to take a step: the key store answers the scanner (its get and set resolve),
   while a dispatch may be slow, stay where it is for ever, or reject. *)

NextSlow ==
    \/ Next
    \/ \E d \in tasks : DispatchStoreFail(d)
    \/ \E d \in tasks : DispatchTriggerFail(d)
    \/ \E d \in tasks : DispatchDelFail(d)

SpecSlow ==
    /\ InitFail
    /\ [][NextSlow]_vars
    /\ \A p \in FailProcs : WF_vars(ScanGet(p)) /\ WF_vars(ScanSet(p))

\* the candidates a scan can have
Candidates == 1..Cardinality(TimerIds)

\* C15: a scan at one candidate comes to the next candidate, and a running scan
\* comes to its end, whatever the dispatches it started do: they may be slow,
\* never complete or fail, the scan waits for none of them.
C15_ScanNotBlocked ==
    \A p \in FailProcs :
        /\ \A k \in Candidates :
                (scan[p].pc = "get" /\ scan[p].i = k /\ k < Len(scan[p].timers))
                    ~> (scan[p].pc = "get" /\ scan[p].i = k + 1)
        /\ (scan[p].pc # "idle") ~> (scan[p].pc = "idle")

\* C15's case: a scan that has handled its two candidates and returned while the
\* dispatch it started for the first is still at its first step
C15_Witness ==
    \E p \in FailProcs : \E d \in tasks :
        /\ scan[p].pc = "idle" /\ scan[p].at = d.born
        /\ d.proc = p /\ ~d.check /\ d.pc = "read"
        /\ \E to \in timeouts : to.proc = p /\ to.rawTimer.id = 2

----------------------------------------------------------------------------
(* SpecCrash: two processes scan timer 2, which is due half a scan period
   after the first scan; one of them may crash after it has set the key and
   before its deferred dispatch runs.  The clock is seen at the cron's instants
   only: it moves from one to the next once every live process has started the
   scan of the instant and the dispatches in flight are over (an operation
   takes less than a scan period), and a callback due in between runs at some
   point after its time.  No operation fails and the timer is not reconfigured.
   Every step of a live process that can be taken is taken in the end. *)

\* the cron instants after the first
MaxScans == 2
Horizon == MaxScans * TEN_MINUTES

CrashProcs == {"p1", "p2"}

Crashed(p) == scan[p].pc = "crashed"

InitCrash ==
    /\ now = 0
    /\ timers = (2 :> DueSoon)
    /\ scan = [p \in CrashProcs |-> IdleScan]
    /\ Entities
    /\ Quiet

\* the clock reaching the next cron instant
TickCron ==
    /\ now < Horizon
    /\ \A p \in CrashProcs : Crashed(p) \/ scan[p].at = now
    /\ tasks = {}
    /\ now' = now + TEN_MINUTES
    /\ UNCHANGED <<timers, pages, profiles, envs, redis, scan, timeouts, tasks, fired,
                   updates, probe>>

\* the process p dies, the first to do so, between two scans, holding a callback
\* not yet run for a timer whose key is set: its callbacks are lost with it
Crash(p) ==
    /\ \A q \in CrashProcs : ~Crashed(q)
    /\ scan[p].pc = "idle"
    /\ ~\E d \in tasks : d.proc = p
    /\ \E to \in timeouts : to.proc = p /\ scheduled(to.rawTimer.projectId, now)
    /\ scan' = [scan EXCEPT ![p].pc = "crashed"]
    /\ timeouts' = {to \in timeouts : to.proc # p}
    /\ UNCHANGED <<now, timers, pages, profiles, envs, redis, tasks, fired, updates,
                   probe>>

NextCrash ==
    \/ TickCron
    \/ \E p \in CrashProcs : Crash(p)
    \/ \E p \in CrashProcs : ScanStart(p)
    \/ \E p \in CrashProcs : ScanGet(p)
    \/ \E p \in CrashProcs : ScanSet(p)
    \/ \E to \in timeouts : TimeoutFire(to)
    \/ \E d \in tasks : DispatchCheck(d)
    \/ \E d \in tasks : DispatchUpdate(d)
    \/ \E d \in tasks : DispatchTrigger(d)
    \/ \E d \in tasks : DispatchDel(d)

FairCrash ==
    /\ WF_vars(TickCron)
    /\ \A p \in CrashProcs :
            WF_vars(ScanStart(p)) /\ WF_vars(ScanGet(p)) /\ WF_vars(ScanSet(p))
    /\ WF_vars(\E to \in timeouts : TimeoutFire(to))
    /\ WF_vars(\E d \in tasks : DispatchCheck(d))
    /\ WF_vars(\E d \in tasks : DispatchUpdate(d))
    /\ WF_vars(\E d \in tasks : DispatchTrigger(d))
    /\ WF_vars(\E d \in tasks : DispatchDel(d))

SpecCrash == InitCrash /\ [][NextCrash]_vars /\ FairCrash

\* C16: when a process that had set the key of timer 2 has crashed before its
\* deferred dispatch ran, and two more scan periods are to come (the key's 11
\* minutes are over before the second), the snapshot of timer 2 is triggered in
\* the end: the key expires and a later scan dispatches the timer.
C16_NoFiringLost ==
    ((\E p \in CrashProcs : Crashed(p)) /\ now + 2 * TEN_MINUTES <= Horizon)
        ~> (fired[2] # <<>>)

\* C16's case: the process that held the key crashed, the key was left to expire,
\* and the scan that came 20 minutes later has dispatched the timer
C16_Witness ==
    /\ \E p \in CrashProcs : Crashed(p)
    /\ redis[2] = KEY_EXPIRY /\ now = 2 * TEN_MINUTES
    /\ fired[2] = <<TickMs>>
    /\ timeouts = {}

====
